---- MODULE Spec2Model ----
(***************************************************************************)
(* Model of deployments/grok/grok-service/main.py: the analyzer variants   *)
(* (LightweightAnalyzer, GrokAnalyzer, ProxyAnalyzer), the startup mode    *)
(* selection and the /analyze endpoint.                                    *)
(*                                                                         *)
(* Value conventions                                                       *)
(*   - a Python dict read with .get() is a record with a field `keys`, the *)
(*     set of keys it holds; a key outside `keys` is absent;               *)
(*   - an Optional value is a sequence of length 0 (None) or 1;            *)
(*   - a score is [isNum, n]: n counts units of 1/ScoreScale, so that      *)
(*     fractional scores such as 80.5 exist; isNum = FALSE is a value that *)
(*     Python cannot order against an int (a str, None);                   *)
(*   - a confidence is an integer number of hundredths (0.85 is 85);       *)
(*   - a raised exception is a record [type, status_code, detail].         *)
(***************************************************************************)
EXTENDS Integers, Sequences, FiniteSets, TLC

\* ------------------------------------------------------------------ bounds
\* Longest context.anomalies list of a request of the service.
MaxReports == 2
\* Longest context.anomalies list of a request in the interleaved model.
MaxConcReports == 2
\* Sub-unit resolution of a score: a score n stands for n / ScoreScale.
ScoreScale == 2
\* Largest whole score fed to the validator alone.
MaxScore == 100
\* Last instant of the clock read by datetime.now().
MaxClock == 1

\* --------------------------------------------------------- Python values
None == << >>
Some(v) == << v >>

Num(n) == [isNum |-> TRUE, n |-> n]
\* a score Python cannot compare with an int ("high", null)
NonNumeric == [isNum |-> FALSE, n |-> 0]
\* the int literal k of the source, in score units
Lit(k) == k * ScoreScale

NoExc == [type |-> "", status_code |-> 0, detail |-> ""]
Exc(t, d) == [type |-> t, status_code |-> 0, detail |-> d]
\* fastapi.HTTPException(status_code, detail)
HTTPException(code, d) == [type |-> "HTTPException", status_code |-> code, detail |-> d]
\* str(e): starlette's HTTPException prints "<status>: <detail>", the
\* built-in exceptions print their message
str(e) == IF e.type = "HTTPException" THEN ToString(e.status_code) \o ": " \o e.detail ELSE e.detail

\* dict.get(key, default)
Get(d, key, default) == IF key \in d.keys THEN d[key] ELSE default

\* ------------------------------------------------- LightweightAnalyzer
\* _load_rules
_load_rules == [error_spike |-> [threshold |-> <<1, 10>>, severity |-> "high"], latency_spike |-> [threshold |-> <<1000, 1>>, severity |-> "medium"], ddos_pattern |-> [requests_per_ip |-> 100, severity |-> "critical"]]

\* LightweightAnalyzer()
LightweightAnalyzer == [cls |-> "LightweightAnalyzer", rules |-> _load_rules, api_url |-> ""]

\* the result of a bool-valued method: returned value or raised exception
RetBool(b) == [raised |-> FALSE, exc |-> NoExc, ret |-> b]
RaiseBool(e) == [raised |-> TRUE, exc |-> e, ret |-> FALSE]

TypeErrorGt == Exc("TypeError", "'>' not supported between instances of 'str' and 'int'")

_validate_anomaly_typeless(self, anomaly) ==
    LET score == Get(anomaly, "score", Num(0))
    IN  IF ~score.isNum THEN RaiseBool(TypeErrorGt)
        ELSE RetBool(score.n > Lit(60))

_validate_anomaly_ge(self, anomaly) ==
    LET score == Get(anomaly, "score", Num(0))
        anomaly_type == Get(anomaly, "anomaly_type", "")
    IN  IF ~score.isNum THEN RaiseBool(TypeErrorGt)
        ELSE IF score.n >= Lit(80) THEN RetBool(TRUE)
        ELSE IF score.n > Lit(60) /\ anomaly_type \in {"ddos_attack", "data_exfiltration"} THEN RetBool(TRUE)
        ELSE RetBool(FALSE)

\* _validate_anomaly
_validate_anomaly(self, anomaly) ==
    LET score == Get(anomaly, "score", Num(0))
        anomaly_type == Get(anomaly, "anomaly_type", "")
    IN  IF ~score.isNum THEN RaiseBool(TypeErrorGt)
        ELSE IF score.n > Lit(80) THEN RetBool(TRUE)
        ELSE IF score.n > Lit(60) /\ anomaly_type \in {"ddos_attack", "data_exfiltration"} THEN RetBool(TRUE)
        ELSE RetBool(FALSE)

_generate_suggestions_onelist(self, anomaly_type, severity) ==
    IF anomaly_type \in {"error_spike", "latency_spike", "ddos_attack", "traffic_spike"}
    THEN <<"Check backend service health", "Review recent deployments", "Increase timeout values if needed">>
    ELSE <<"Monitor the situation closely">>

\* _generate_suggestions
_generate_suggestions(self, anomaly_type, severity) ==
    CASE anomaly_type = "error_spike" -> <<"Check backend service health", "Review recent deployments", "Increase timeout values if needed">>
      [] anomaly_type = "latency_spike" -> <<"Scale up backend instances", "Check database query performance", "Enable caching for frequently accessed resources">>
      [] anomaly_type = "ddos_attack" -> <<"Enable rate limiting immediately", "Block suspicious IP ranges", "Contact DDoS mitigation provider">>
      [] anomaly_type = "traffic_spike" -> <<"Verify if legitimate traffic increase", "Scale horizontally if needed", "Enable CDN caching">>
      [] OTHER -> <<"Monitor the situation closely">>

\* the numbered lines "1. <x>\n2. <y>\n..." built by the enumerate loops
RECURSIVE Numbered(_, _)
Numbered(items, i) ==
    IF i > Len(items) THEN ""
    ELSE ToString(i) \o ". " \o items[i] \o "\n" \o Numbered(items, i + 1)

\* _generate_response
_generate_response(self, prompt, anomalies, suggestions) ==
    IF anomalies = << >>
    THEN "No significant anomalies detected in the analyzed traffic patterns. All metrics appear to be within normal ranges."
    ELSE "Analysis Results:\n\n" \o "Detected " \o ToString(Len(anomalies)) \o " anomalies:\n" \o Numbered(anomalies, 1)
         \o (IF suggestions # << >> THEN "\nRecommended Actions:\n" \o Numbered(suggestions, 1) ELSE "")


\* AnalysisResponse(response=..., confidence=..., anomalies=..., ...)
AnalysisResponse(response, confidence, anomalies, suggestions, metadata) == [response |-> response, confidence |-> confidence, anomalies |-> anomalies, suggestions |-> suggestions, metadata |-> metadata]

NoResult == AnalysisResponse("", None, None, None, None)

\* the result of Analyzer.analyze: the AnalysisResponse returned or the
\* exception raised, and the number of outbound HTTP calls it issued
Return(result, calls) == [raised |-> FALSE, exc |-> NoExc, result |-> result, calls |-> calls]
Raise(e, calls) == [raised |-> TRUE, exc |-> e, result |-> NoResult, calls |-> calls]

\* datetime.now().isoformat(), the instant counted in clock ticks
isoformat(t) == ToString(t)

\* the locals of LightweightAnalyzer.analyze before the loop
Locals0 == [anomalies |-> << >>, suggestions |-> << >>, confidence |-> 70, raised |-> FALSE, exc |-> NoExc]

LoopBody_max(self, loc, anomaly) ==
    IF ~anomaly.isDict
    THEN [loc EXCEPT !.raised = TRUE, !.exc = Exc("AttributeError", "'str' object has no attribute 'get'")]
    ELSE LET anomaly_type == Get(anomaly, "anomaly_type", "")
             severity == Get(anomaly, "severity", "")
             valid == _validate_anomaly(self, anomaly)
         IN  IF valid.raised THEN [loc EXCEPT !.raised = TRUE, !.exc = valid.exc]
             ELSE [loc EXCEPT
                     !.anomalies = Append(@, IF valid.ret THEN "Confirmed: " \o anomaly_type \o " - " \o severity ELSE "Low confidence: " \o anomaly_type),
                     !.confidence = IF valid.ret \/ @ = 85 THEN 85 ELSE 50,
                     !.suggestions = @ \o _generate_suggestions(self, anomaly_type, severity)]

\* one iteration of the loop over context["anomalies"]
LoopBody(self, loc, anomaly) ==
    IF ~anomaly.isDict
    THEN [loc EXCEPT !.raised = TRUE, !.exc = Exc("AttributeError", "'str' object has no attribute 'get'")]
    ELSE LET anomaly_type == Get(anomaly, "anomaly_type", "")
             severity == Get(anomaly, "severity", "")
             valid == _validate_anomaly(self, anomaly)
         IN  IF valid.raised THEN [loc EXCEPT !.raised = TRUE, !.exc = valid.exc]
             ELSE [loc EXCEPT
                     !.anomalies = Append(@, IF valid.ret THEN "Confirmed: " \o anomaly_type \o " - " \o severity ELSE "Low confidence: " \o anomaly_type),
                     !.confidence = IF valid.ret THEN 85 ELSE 50,
                     !.suggestions = @ \o _generate_suggestions(self, anomaly_type, severity)]

\* the loop from its i-th item on; an exception ends it
RECURSIVE Loop(_, _, _, _)
Loop(self, items, i, loc) ==
    IF i > Len(items) \/ loc.raised THEN loc
    ELSE Loop(self, items, i + 1, LoopBody(self, loc, items[i]))

\* `context and "anomalies" in context`
HasAnomalies(context) == ~context.isNone /\ context.keys # {} /\ "anomalies" \in context.keys

\* the statements after the loop: the narrative and the AnalysisResponse
Finish(self, prompt, loc, t) ==
    AnalysisResponse(_generate_response(self, prompt, loc.anomalies, loc.suggestions),
                     Some(loc.confidence),
                     IF loc.anomalies # << >> THEN Some(loc.anomalies) ELSE None,
                     IF loc.suggestions # << >> THEN Some(loc.suggestions) ELSE None,
                     Some([analyzer |-> "lightweight", rules_version |-> "1.0", analyzed_at |-> isoformat(t)]))

\* LightweightAnalyzer.analyze, run at instant t
LightweightAnalyzer_analyze(self, prompt, max_tokens, temperature, context, t) ==
    IF ~HasAnomalies(context) THEN Return(Finish(self, prompt, Locals0, t), 0)
    ELSE IF context.anomalies.isNull THEN Raise(Exc("TypeError", "'NoneType' object is not iterable"), 0)
    ELSE LET loc == Loop(self, context.anomalies.items, 1, Locals0)
         IN  IF loc.raised THEN Raise(loc.exc, 0)
             ELSE Return(Finish(self, prompt, loc, t), 0)

\* ------------------------------------------------ GrokAnalyzer, ProxyAnalyzer
\* the result of a constructor: the instance built or the exception raised
NoModel == [cls |-> "None", rules |-> << >>, api_url |-> ""]
Built(obj) == [raised |-> FALSE, exc |-> NoExc, obj |-> obj]
Failed(e) == [raised |-> TRUE, exc |-> e, obj |-> NoModel]

\* GrokAnalyzer.__init__
GrokAnalyzer(model_path) ==
    Failed(Exc("NotImplementedError", "Full Grok-1 mode requires downloading 314B parameters model. Use 'lightweight' or 'proxy' mode instead."))

\* ProxyAnalyzer.__init__
ProxyAnalyzer(api_url) ==
    IF api_url = "" THEN Failed(Exc("ValueError", "GROK_API_URL must be set for proxy mode"))
    ELSE Built([cls |-> "ProxyAnalyzer", rules |-> << >>, api_url |-> api_url])

\* AnalysisResponse(**data): pydantic keeps the declared fields, requires
\* `response` and defaults every other field to None
AnalysisResponse_from(data) ==
    IF ~data.isObject THEN Raise(Exc("TypeError", "argument after ** must be a mapping, not list"), 1)
    ELSE IF "response" \notin data.keys THEN Raise(Exc("ValidationError", "response: field required"), 1)
    ELSE Return(AnalysisResponse(data.response,
                                 IF "confidence" \in data.keys THEN Some(data.confidence) ELSE None,
                                 IF "anomalies" \in data.keys THEN Some(data.anomalies) ELSE None,
                                 IF "suggestions" \in data.keys THEN Some(data.suggestions) ELSE None,
                                 IF "metadata" \in data.keys THEN Some(data.metadata) ELSE None), 1)

HandleResponse_2xx(status, body) ==
    IF status \notin 200..299 THEN Raise(HTTPException(status, "Grok API error: " \o body.text), 1)
    ELSE IF ~body.isJson THEN Raise(Exc("ContentTypeError", "Attempt to decode JSON with unexpected mimetype"), 1)
    ELSE AnalysisResponse_from(body)

\* the body of `async with session.post(...) as response`
HandleResponse(status, body) ==
    IF status # 200 THEN Raise(HTTPException(status, "Grok API error: " \o body.text), 1)
    ELSE IF ~body.isJson THEN Raise(Exc("ContentTypeError", "Attempt to decode JSON with unexpected mimetype"), 1)
    ELSE AnalysisResponse_from(body)

ProxyAnalyzer_analyze_retry(self, prompt, max_tokens, temperature, context, reply) ==
    CASE reply.kind = "timeout" -> Raise(Exc("TimeoutError", ""), 2)
      [] reply.kind = "connect" -> Raise(Exc("ClientConnectorError", "Cannot connect to host " \o self.api_url), 2)
      [] OTHER -> HandleResponse(reply.status, reply.body)

\* ProxyAnalyzer.analyze; reply is what the single session.post meets:
\* a response, the 60 s timeout or a failed connection
ProxyAnalyzer_analyze(self, prompt, max_tokens, temperature, context, reply) ==
    CASE reply.kind = "timeout" -> Raise(Exc("TimeoutError", ""), 1)
      [] reply.kind = "connect" -> Raise(Exc("ClientConnectorError", "Cannot connect to host " \o self.api_url), 1)
      [] OTHER -> HandleResponse(reply.status, reply.body)

\* -------------------------------------------------------- startup, endpoint
SelectAnalyzer_fallback(mode, api_url, model_path) ==
    CASE mode = "full" -> GrokAnalyzer(model_path)
      [] mode = "proxy" -> ProxyAnalyzer(api_url)
      [] OTHER -> Built(LightweightAnalyzer)

\* the try block of startup_event: the analyzer for MODE, or the exception
SelectAnalyzer(mode, api_url, model_path) ==
    CASE mode = "lightweight" -> Built(LightweightAnalyzer)
      [] mode = "full" -> GrokAnalyzer(model_path)
      [] mode = "proxy" -> ProxyAnalyzer(api_url)
      [] OTHER -> Failed(Exc("ValueError", "Unknown mode: " \o mode))

\* model.analyze(...): dispatch on the class of the shared instance
model_analyze(m, request, reply, t) ==
    IF m.cls = "LightweightAnalyzer"
    THEN LightweightAnalyzer_analyze(m, request.prompt, request.max_tokens, request.temperature, request.context, t)
    ELSE ProxyAnalyzer_analyze(m, request.prompt, request.max_tokens, request.temperature, request.context, reply)

\* what the endpoint answers: a status, the error detail, the result body
HttpResponse(code, detail, body) == [status_code |-> code, detail |-> detail, body |-> body]

\* the /analyze endpoint: `if not model`, then the try/except around
\* model.analyze
analyze(m, request, reply, t) ==
    IF m = NoModel
    THEN [outcome |-> Raise(NoExc, 0), called |-> FALSE, http |-> HttpResponse(503, "Model not initialized", NoResult)]
    ELSE LET o == model_analyze(m, request, reply, t)
         IN  [outcome |-> o, called |-> TRUE,
              http |-> IF o.raised THEN HttpResponse(500, str(o.exc), NoResult) ELSE HttpResponse(200, "", o.result)]

\* ------------------------------------------------------------ input domains
\* all sequences over S of length at most n
SeqsUpTo(S, n) == UNION {[1..k -> S] : k \in 0..n}

ReportKeys == {"anomaly_type", "severity", "score"}

\* an entry of context["anomalies"] that is a dict holding the keys ks;
\* the fields of absent keys are fixed so that equal dicts are equal records
Report(ks, t, sev, sc) ==
    [isDict |-> TRUE, keys |-> ks,
     anomaly_type |-> IF "anomaly_type" \in ks THEN t ELSE "",
     severity |-> IF "severity" \in ks THEN sev ELSE "",
     score |-> IF "score" \in ks THEN sc ELSE Num(0)]

\* an entry that is no dict (a JSON string)
NotADict == [isDict |-> FALSE, keys |-> {}, anomaly_type |-> "", severity |-> "", score |-> Num(0)]

AnomalyTypes == {"error_spike", "latency_spike", "ddos_attack", "traffic_spike", "data_exfiltration", "unknown_type"}

\* the scores around the two thresholds, half a unit apart at the closest
EdgeScores == {Num(Lit(60)), Num(Lit(60) + 1), Num(Lit(80)), Num(Lit(80) + 1)}

\* the reports the validator is run on alone: every key set, every type,
\* every score from -1 to MaxScore in steps of 1/ScoreScale, and a
\* non-numeric score
ValidatorReports ==
    {Report(ks, t, "high", sc) : ks \in SUBSET ReportKeys, t \in AnomalyTypes \cup {""},
                                 sc \in {Num(n) : n \in Lit(-1)..Lit(MaxScore)} \cup {NonNumeric}}

\* the entries of the service's requests: complete reports at the threshold
\* edges, reports lacking keys, a non-numeric score, a non-dict entry
ServiceEntries ==
    {Report(ReportKeys, t, "high", sc) : t \in AnomalyTypes, sc \in EdgeScores}
    \cup {Report(ks, "ddos_attack", "critical", sc) : ks \in SUBSET ReportKeys, sc \in {Num(Lit(60) + 1), Num(Lit(80) + 1)}}
    \cup {Report(ReportKeys, "error_spike", "high", NonNumeric), NotADict}

ListOf(items) == [isNull |-> FALSE, items |-> items]
NullList == [isNull |-> TRUE, items |-> << >>]

\* request.context: None, {}, a dict without "anomalies", {"anomalies": null}
\* and {"anomalies": [...]}
NoContext == [isNone |-> TRUE, keys |-> {}, anomalies |-> ListOf(<< >>)]
ContextWith(ks, list) == [isNone |-> FALSE, keys |-> ks, anomalies |-> list]
ContextsOver(entries, n) ==
    {NoContext, ContextWith({}, ListOf(<< >>)), ContextWith({"window"}, ListOf(<< >>)), ContextWith({"anomalies"}, NullList)}
    \cup {ContextWith({"anomalies"}, ListOf(l)) : l \in SeqsUpTo(entries, n)}

\* AnalysisRequest with its defaults max_tokens = 500, temperature = 0.3
AnalysisRequest(context) == [prompt |-> "Analyze the traffic", max_tokens |-> 500, temperature |-> 30, context |-> context]

\* the remote endpoint's bodies: text that is no JSON, a JSON list, and JSON
\* objects holding any of the AnalysisResponse fields
RECURSIVE Join(_)
Join(parts) == IF parts = << >> THEN "" ELSE IF Len(parts) = 1 THEN parts[1] ELSE parts[1] \o ", " \o Join(Tail(parts))

JsonObject(ks, conf) ==
    [isJson |-> TRUE, isObject |-> TRUE, keys |-> ks,
     text |-> "{" \o Join(SelectSeq(<<IF "response" \in ks THEN "\"response\": \"ok\"" ELSE "",
                                     IF "confidence" \in ks THEN "\"confidence\": " \o ToString(conf) \o "e-2" ELSE "",
                                     IF "metadata" \in ks THEN "\"metadata\": {}" ELSE "">>, LAMBDA x : x # "")) \o "}",
     response |-> IF "response" \in ks THEN "ok" ELSE "",
     confidence |-> IF "confidence" \in ks THEN conf ELSE 0,
     anomalies |-> << >>, suggestions |-> << >>, metadata |-> << >>]

PlainText(txt) ==
    [isJson |-> FALSE, isObject |-> FALSE, keys |-> {}, text |-> txt, response |-> "", confidence |-> 0,
     anomalies |-> << >>, suggestions |-> << >>, metadata |-> << >>]

JsonList == [PlainText("[]") EXCEPT !.isJson = TRUE]

Bodies ==
    {PlainText("boom"), JsonList}
    \cup {JsonObject(ks, conf) : ks \in SUBSET {"response", "confidence", "metadata"}, conf \in {-10, 90, 150}}

Statuses == {200, 201, 204, 299, 304, 404, 500}

NoReply == [kind |-> "none", status |-> 0, body |-> PlainText("")]
Replies ==
    {[kind |-> "response", status |-> st, body |-> b] : st \in Statuses, b \in Bodies}
    \cup {[NoReply EXCEPT !.kind = "timeout"], [NoReply EXCEPT !.kind = "connect"]}

Modes == {"lightweight", "full", "proxy", "Lightweight", "bogus", ""}
Urls == {"", "http://grok:9000"}

\* ------------------------------------------------------------------- state
VARIABLES
    MODE,           \* os.getenv("GROK_MODE", "lightweight")
    GROK_API_URL,   \* os.getenv("GROK_API_URL", "")
    model,          \* the module global `model`: NoModel or the analyzer
    phase,          \* "init" before startup_event, then "serving" or "aborted"
    startup_error,  \* the exception startup_event re-raised, if any
    exchange,       \* the request being answered by /analyze, if any, with its outcome
    now,            \* the clock datetime.now() reads
    v_report,       \* the report handed to _validate_anomaly run alone
    v_result,       \* what that call returned or raised, once made
    pc,             \* per in-flight request: "idle", "loop", "built", "raised"
    creq,           \* per in-flight request: its AnalysisRequest
    loc,            \* per in-flight request: the locals of analyze, with the loop index
    cres            \* per in-flight request: the endpoint's answer, once made

vars == <<MODE, GROK_API_URL, model, phase, startup_error, exchange, now, v_report, v_result, pc, creq, loc, cres>>

serviceVars == <<MODE, GROK_API_URL, model, phase, startup_error, exchange>>
validatorVars == <<v_report, v_result>>
concVars == <<pc, creq, loc, cres>>

\* the in-flight requests of the interleaved model
Reqs == {1, 2}

NoExchange == None
ValidatorIdle == v_report = NotADict /\ v_result = None
ConcIdle ==
    /\ pc = [r \in Reqs |-> "idle"]
    /\ creq = [r \in Reqs |-> AnalysisRequest(NoContext)]
    /\ loc = [r \in Reqs |-> [i |-> 0, l |-> Locals0]]
    /\ cres = [r \in Reqs |-> None]

\* ----------------------------------------------------------- the service
Init ==
    /\ MODE \in Modes
    /\ GROK_API_URL \in Urls
    /\ model = NoModel
    /\ phase = "init"
    /\ startup_error = None
    /\ exchange = NoExchange
    /\ now = 0
    /\ ValidatorIdle
    /\ ConcIdle

\* startup_event: build the analyzer for MODE; a failure is logged and
\* re-raised, leaving the global unset
startup_event ==
    /\ phase = "init"
    /\ LET built == SelectAnalyzer(MODE, GROK_API_URL, "/models")
       IN  /\ model' = IF built.raised THEN model ELSE built.obj
           /\ phase' = IF built.raised THEN "aborted" ELSE "serving"
           /\ startup_error' = IF built.raised THEN Some(built.exc) ELSE None
    /\ UNCHANGED <<MODE, GROK_API_URL, exchange, now, validatorVars, concVars>>

\* POST /analyze, handled to its answer. The handler reads the global
\* whenever a request reaches it, also when startup never ran or failed.
post_analyze ==
    /\ exchange = NoExchange
    /\ \E context \in IF model.cls = "LightweightAnalyzer" THEN ContextsOver(ServiceEntries, MaxReports) ELSE ContextsOver({Report(ReportKeys, "ddos_attack", "critical", Num(Lit(90)))}, 1),
          reply \in IF model.cls = "ProxyAnalyzer" THEN Replies ELSE {NoReply} :
            LET request == AnalysisRequest(context)
                done == analyze(model, request, reply, now)
            IN  exchange' = Some([request |-> request, reply |-> reply, at |-> now, called |-> done.called, outcome |-> done.outcome, http |-> done.http])
    /\ UNCHANGED <<MODE, GROK_API_URL, model, phase, startup_error, now, validatorVars, concVars>>

\* the answer is sent; the request's values are dropped
send_response ==
    /\ exchange # NoExchange
    /\ exchange' = NoExchange
    /\ UNCHANGED <<MODE, GROK_API_URL, model, phase, startup_error, now, validatorVars, concVars>>

\* time passes
Tick ==
    /\ now < MaxClock
    /\ now' = now + 1
    /\ UNCHANGED <<serviceVars, validatorVars, concVars>>

Next == startup_event \/ post_analyze \/ send_response \/ Tick

Spec == Init /\ [][Next]_vars

\* ---------------------------------------------- _validate_anomaly run alone
InitValidator ==
    /\ MODE = "lightweight" /\ GROK_API_URL = "" /\ model = LightweightAnalyzer /\ phase = "serving"
    /\ startup_error = None /\ exchange = NoExchange /\ now = 0
    /\ v_report \in ValidatorReports
    /\ v_result = None
    /\ ConcIdle

Validate ==
    /\ v_result = None
    /\ v_result' = Some(_validate_anomaly(model, v_report))
    /\ UNCHANGED <<serviceVars, now, v_report, concVars>>

NextValidator == Validate

SpecValidator == InitValidator /\ [][NextValidator]_vars

\* ------------------------------ concurrent requests on the shared analyzer
\* The handler of each in-flight request runs LightweightAnalyzer.analyze on
\* the one shared instance; its steps are interleaved with the other
\* requests' at every loop iteration.
ConcEntries ==
    {Report(ReportKeys, "ddos_attack", "critical", Num(Lit(60) + 1)),
     Report(ReportKeys, "latency_spike", "medium", Num(Lit(10))),
     Report(ReportKeys, "error_spike", "high", NonNumeric)}

InitConc ==
    /\ MODE = "lightweight" /\ GROK_API_URL = "" /\ model = LightweightAnalyzer /\ phase = "serving"
    /\ startup_error = None /\ exchange = NoExchange /\ now = 0
    /\ ValidatorIdle
    /\ ConcIdle

Answered(o, t) == Some([at |-> t, http |-> IF o.raised THEN HttpResponse(500, str(o.exc), NoResult) ELSE HttpResponse(200, "", o.result)])

\* the handler up to the loop: the lines before `for anomaly in ...`
Enter(r) ==
    /\ pc[r] = "idle"
    /\ \E context \in ContextsOver(ConcEntries, MaxConcReports) :
         /\ creq' = [creq EXCEPT ![r] = AnalysisRequest(context)]
         /\ loc' = [loc EXCEPT ![r] = [i |-> 1, l |-> Locals0]]
         /\ IF model = NoModel
            THEN /\ pc' = [pc EXCEPT ![r] = "answered"]
                 /\ cres' = [cres EXCEPT ![r] = Some([at |-> now, http |-> HttpResponse(503, "Model not initialized", NoResult)])]
            ELSE IF HasAnomalies(context) /\ context.anomalies.isNull
            THEN /\ pc' = [pc EXCEPT ![r] = "answered"]
                 /\ cres' = [cres EXCEPT ![r] = Answered(Raise(Exc("TypeError", "'NoneType' object is not iterable"), 0), now)]
            ELSE /\ pc' = [pc EXCEPT ![r] = IF HasAnomalies(context) THEN "loop" ELSE "build"]
                 /\ cres' = cres
    /\ UNCHANGED <<serviceVars, now, validatorVars>>

Iterate_shared(r) ==
    /\ pc[r] = "loop"
    /\ loc[r].i <= Len(creq[r].context.anomalies.items)
    /\ LET l == LoopBody(model, loc[r].l, creq[r].context.anomalies.items[loc[r].i])
       IN  IF l.raised
           THEN /\ pc' = [pc EXCEPT ![r] = "answered"]
                /\ cres' = [cres EXCEPT ![r] = Answered(Raise(l.exc, 0), now)]
                /\ loc' = loc
           ELSE /\ loc' = [q \in Reqs |-> IF q = r THEN [i |-> loc[r].i + 1, l |-> l] ELSE IF pc[q] = "loop" THEN [loc[q] EXCEPT !.l = l] ELSE loc[q]]
                /\ UNCHANGED <<pc, cres>>
    /\ UNCHANGED <<serviceVars, now, validatorVars, creq>>

\* one iteration of the loop, on the request's own locals; an exception
\* leaves analyze and is answered by the endpoint's except clause
Iterate(r) ==
    /\ pc[r] = "loop"
    /\ loc[r].i <= Len(creq[r].context.anomalies.items)
    /\ LET l == LoopBody(model, loc[r].l, creq[r].context.anomalies.items[loc[r].i])
       IN  IF l.raised
           THEN /\ pc' = [pc EXCEPT ![r] = "answered"]
                /\ cres' = [cres EXCEPT ![r] = Answered(Raise(l.exc, 0), now)]
                /\ loc' = loc
           ELSE /\ loc' = [loc EXCEPT ![r] = [i |-> loc[r].i + 1, l |-> l]]
                /\ UNCHANGED <<pc, cres>>
    /\ UNCHANGED <<serviceVars, now, validatorVars, creq>>

\* the loop is over
LoopEnd(r) ==
    /\ pc[r] = "loop"
    /\ loc[r].i > Len(creq[r].context.anomalies.items)
    /\ pc' = [pc EXCEPT ![r] = "build"]
    /\ UNCHANGED <<serviceVars, now, validatorVars, creq, loc, cres>>

\* the narrative and the AnalysisResponse are built and returned
Build(r) ==
    /\ pc[r] = "build"
    /\ pc' = [pc EXCEPT ![r] = "answered"]
    /\ cres' = [cres EXCEPT ![r] = Answered(Return(Finish(model, creq[r].prompt, loc[r].l, now), 0), now)]
    /\ UNCHANGED <<serviceVars, now, validatorVars, creq, loc>>

\* the answer is sent; the request's values are dropped
Send(r) ==
    /\ pc[r] = "answered"
    /\ pc' = [pc EXCEPT ![r] = "idle"]
    /\ creq' = [creq EXCEPT ![r] = AnalysisRequest(NoContext)]
    /\ loc' = [loc EXCEPT ![r] = [i |-> 0, l |-> Locals0]]
    /\ cres' = [cres EXCEPT ![r] = None]
    /\ UNCHANGED <<serviceVars, now, validatorVars>>

NextConc == (\E r \in Reqs : Enter(r) \/ Iterate(r) \/ LoopEnd(r) \/ Build(r) \/ Send(r)) \/ Tick

SpecConc == InitConc /\ [][NextConc]_vars

\* ================================================================== claims
\* what the claims say of a report, read off the report's own fields
HoldsNumericScore(rep) == "score" \in rep.keys /\ rep.score.isNum
ScoreAbove(rep, k) == HoldsNumericScore(rep) /\ rep.score.n > k * ScoreScale
TypeAmong(rep, T) == "anomaly_type" \in rep.keys /\ rep.anomaly_type \in T
EscalatedTypes == {"ddos_attack", "data_exfiltration"}

Validated == v_result # None
ValidatedConfirmed == Validated /\ ~v_result[1].raised /\ v_result[1].ret

\* C1: for every report whose score is a number (or absent, which counts as
\* 0), _validate_anomaly returns confirmed exactly when score > 80, or
\* 60 < score <= 80 and the type is ddos_attack or data_exfiltration; so
\* above 80 it is confirmed whatever the type, and at or below 60 it is
\* never confirmed.
C1_ValidateDecision ==
    (Validated /\ ("score" \notin v_report.keys \/ v_report.score.isNum)) =>
        /\ ~v_result[1].raised
        /\ v_result[1].ret <=> \/ ScoreAbove(v_report, 80)
                               \/ ScoreAbove(v_report, 60) /\ ~ScoreAbove(v_report, 80) /\ TypeAmong(v_report, EscalatedTypes)
        /\ ScoreAbove(v_report, 80) => v_result[1].ret
        /\ ~ScoreAbove(v_report, 60) => ~v_result[1].ret

\* a report scored exactly 80 is confirmed through its type
C1_Witness ==
    /\ ValidatedConfirmed
    /\ HoldsNumericScore(v_report) /\ v_report.score.n = 80 * ScoreScale
    /\ TypeAmong(v_report, {"data_exfiltration"})

\* C3 as stated: a report lacking anomaly_type is never confirmed, whatever
\* its other fields (and a report lacking score is validated as score 0).
C3_TypelessNeverConfirmed ==
    (Validated /\ "anomaly_type" \notin v_report.keys) => ~ValidatedConfirmed

\* C3 amended: a report lacking score is validated as score 0, so it is not
\* confirmed and nothing is raised; a report lacking anomaly_type is
\* validated as the empty-string type, which never confirms through the type
\* rule, so it is confirmed exactly when its score is above 80.
C3_TypelessConfirmedOnlyAbove80 ==
    Validated =>
        /\ "score" \notin v_report.keys => (~v_result[1].raised /\ ~v_result[1].ret)
        /\ "anomaly_type" \notin v_report.keys => (ValidatedConfirmed <=> ScoreAbove(v_report, 80))

\* a report with no anomaly_type and a score between 60 and 80 is validated
\* and not confirmed
C3_Witness ==
    /\ Validated /\ ~ValidatedConfirmed
    /\ "anomaly_type" \notin v_report.keys
    /\ ScoreAbove(v_report, 60) /\ ~ScoreAbove(v_report, 80)

\* ---- the service: what the answered request shows
Handled == exchange # NoExchange
ByLightweight == Handled /\ exchange[1].called /\ model.cls = "LightweightAnalyzer"
ByProxy == Handled /\ exchange[1].called /\ model.cls = "ProxyAnalyzer"
Returned == Handled /\ exchange[1].called /\ ~exchange[1].outcome.raised
\* the reports listed by the request, none when there is no list to read
Listed ==
    IF Handled /\ HasAnomalies(exchange[1].request.context) /\ ~exchange[1].request.context.anomalies.isNull
    THEN exchange[1].request.context.anomalies.items ELSE << >>

\* the decision policy as the claims state it, a missing score counting as 0
\* and a missing type as none
PolicyConfirms(rep) ==
    \/ ScoreAbove(rep, 80)
    \/ ScoreAbove(rep, 60) /\ TypeAmong(rep, EscalatedTypes)

\* C2: LightweightAnalyzer.analyze never raises, for every context: absent,
\* without anomalies, with a null or empty anomalies field, or with reports
\* whose fields are missing or invalid.
C2_AnalyzeNeverRaises ==
    ByLightweight => ~exchange[1].outcome.raised

\* C4: the confidence LightweightAnalyzer.analyze returns is the baseline
\* 0.7 when no report is listed, and otherwise 0.85 if the last report in
\* input order is confirmed and 0.5 if it is not, whatever came before it.
C4_LastReportWins ==
    (ByLightweight /\ Returned) =>
        exchange[1].outcome.result.confidence =
            Some(IF Listed = << >> THEN 70 ELSE IF PolicyConfirms(Listed[Len(Listed)]) THEN 85 ELSE 50)

\* a confirmed report followed by an unconfirmed one: confidence 0.5
C4_Witness ==
    /\ ByLightweight /\ Returned
    /\ Len(Listed) = 2
    /\ PolicyConfirms(Listed[1]) /\ ~PolicyConfirms(Listed[2])
    /\ exchange[1].http.status_code = 200
    /\ exchange[1].http.body.confidence = Some(50)

\* the entry and the suggestions the claims give for one report
ClaimedEntry(rep) ==
    LET type == IF "anomaly_type" \in rep.keys THEN rep.anomaly_type ELSE ""
        severity == IF "severity" \in rep.keys THEN rep.severity ELSE ""
    IN  IF PolicyConfirms(rep) THEN "Confirmed: " \o type \o " - " \o severity ELSE "Low confidence: " \o type

ClaimedSuggestions(rep) ==
    IF TypeAmong(rep, {"error_spike"}) THEN <<"Check backend service health", "Review recent deployments", "Increase timeout values if needed">>
    ELSE IF TypeAmong(rep, {"latency_spike"}) THEN <<"Scale up backend instances", "Check database query performance", "Enable caching for frequently accessed resources">>
    ELSE IF TypeAmong(rep, {"ddos_attack"}) THEN <<"Enable rate limiting immediately", "Block suspicious IP ranges", "Contact DDoS mitigation provider">>
    ELSE IF TypeAmong(rep, {"traffic_spike"}) THEN <<"Verify if legitimate traffic increase", "Scale horizontally if needed", "Enable CDN caching">>
    ELSE <<"Monitor the situation closely">>

RECURSIVE Concatenated(_)
Concatenated(lists) == IF lists = << >> THEN << >> ELSE Head(lists) \o Concatenated(Tail(lists))

\* a list field of the result: absent when the list is empty
ListField(l) == IF l = << >> THEN None ELSE Some(l)

\* C5: for every sequence of reports, the anomalies returned hold exactly one
\* entry per report in input order ("Confirmed: {type} - {severity}" or
\* "Low confidence: {type}"), and the suggestions returned are the
\* concatenation in input order of each report's list from the mapping table,
\* a type outside the table giving ["Monitor the situation closely"];
\* duplicates are kept. A list with no element is returned as an absent field.
C5_EntriesAndSuggestions ==
    (ByLightweight /\ Returned) =>
        /\ exchange[1].outcome.result.anomalies = ListField([i \in 1..Len(Listed) |-> ClaimedEntry(Listed[i])])
        /\ exchange[1].outcome.result.suggestions = ListField(Concatenated([i \in 1..Len(Listed) |-> ClaimedSuggestions(Listed[i])]))

\* two reports of the same table type and one outcome: both suggestion lists
\* are returned, the second a duplicate of the first
C5_Witness ==
    /\ ByLightweight /\ Returned
    /\ Len(Listed) = 2
    /\ TypeAmong(Listed[1], {"traffic_spike"}) /\ TypeAmong(Listed[2], {"traffic_spike"})
    /\ PolicyConfirms(Listed[1]) /\ ~PolicyConfirms(Listed[2])
    /\ Len(exchange[1].http.body.suggestions[1]) = 6
    /\ Len(exchange[1].http.body.anomalies[1]) = 2

\* ---- startup
Constructible == MODE = "lightweight" \/ (MODE = "proxy" /\ GROK_API_URL # "")

\* C6: an analyzer is constructed only for mode "lightweight", or "proxy"
\* with a non-empty URL, and it is that mode's variant. An unrecognized mode
\* fails with a configuration error naming the mode, "full" with a
\* not-implemented error, "proxy" with an empty URL with a configuration
\* error; the error leaves startup, nothing is substituted, the shared
\* instance stays unset and no request is analysed.
C6_FailFastSelection ==
    /\ phase = "init" => model = NoModel
    /\ phase # "init" =>
        /\ phase = (IF Constructible THEN "serving" ELSE "aborted")
        /\ (model # NoModel) <=> Constructible
        /\ MODE = "lightweight" => model.cls = "LightweightAnalyzer"
        /\ Constructible /\ MODE = "proxy" => (model.cls = "ProxyAnalyzer" /\ model.api_url = GROK_API_URL)
        /\ (startup_error # None) <=> ~Constructible
        /\ MODE \notin {"lightweight", "full", "proxy"} => startup_error = Some(Exc("ValueError", "Unknown mode: " \o MODE))
        /\ MODE = "full" => (startup_error # None /\ startup_error[1].type = "NotImplementedError")
        /\ MODE = "proxy" /\ GROK_API_URL = "" => (startup_error # None /\ startup_error[1].type = "ValueError")
    /\ (Handled /\ model = NoModel) => (~exchange[1].called /\ exchange[1].http.status_code = 503)

\* an unrecognized mode aborted startup and a request was turned away
C6_Witness ==
    /\ phase = "aborted" /\ MODE = "bogus"
    /\ startup_error # None
    /\ Handled /\ exchange[1].http.status_code = 503

\* ---- the proxy
Responded == ByProxy /\ exchange[1].reply.kind = "response"
UpstreamError(status, text) == HTTPException(status, "Grok API error: " \o text)
RaisedUpstream ==
    /\ exchange[1].outcome.raised
    /\ exchange[1].outcome.exc = UpstreamError(exchange[1].reply.status, exchange[1].reply.body.text)
Deserializable(body) == body.isJson /\ body.isObject /\ "response" \in body.keys

C8_ResultShape ==
    Returned =>
        /\ exchange[1].outcome.result.confidence # None
        /\ exchange[1].outcome.result.confidence[1] \in 0..100
        /\ exchange[1].outcome.result.metadata # None

TransportFailed == ByProxy /\ exchange[1].reply.kind \in {"timeout", "connect"}

\* C9 as stated: one outbound call at most; a timeout or connection failure
\* raises a transport error that is not the upstream error, and the endpoint
\* answers it with a 502 or 503.
C9_TransportAs502Or503 ==
    /\ ByProxy => exchange[1].outcome.calls <= 1
    /\ TransportFailed =>
        /\ exchange[1].outcome.raised /\ exchange[1].outcome.exc.type # "HTTPException"
        /\ exchange[1].http.status_code \in {502, 503}

\* C9 amended: one outbound call at most, whatever the outcome; a timeout or
\* connection failure raises a transport error that is not the upstream
\* error, and the endpoint answers it with a 500 whose detail is the error's
\* text.
C9_TransportAs500 ==
    /\ ByProxy => exchange[1].outcome.calls <= 1
    /\ Handled /\ ~ByProxy => exchange[1].outcome.calls = 0
    /\ TransportFailed =>
        /\ exchange[1].outcome.raised
        /\ exchange[1].outcome.exc.type \in {"TimeoutError", "ClientConnectorError"}
        /\ exchange[1].outcome.exc.type # "HTTPException"
        /\ exchange[1].http = HttpResponse(500, exchange[1].outcome.exc.detail, NoResult)

\* the outbound call timed out and the endpoint answered 500
C9_Witness ==
    /\ TransportFailed /\ exchange[1].reply.kind = "timeout"
    /\ exchange[1].outcome.calls = 1
    /\ exchange[1].http.status_code = 500

\* ---- concurrent requests
\* C10: under every interleaving of the in-flight requests the shared
\* analyzer and its rule table stay as constructed, and every answer,
\* failures included, is the answer the request gets when handled alone at
\* the same instant.
C10_NoInterference ==
    /\ model = LightweightAnalyzer
    /\ \A r \in Reqs : pc[r] = "answered" =>
        /\ cres[r] # None
        /\ cres[r][1].http = analyze(LightweightAnalyzer, creq[r], NoReply, cres[r][1].at).http

\* one request is answered with both its reports while the other, listing
\* other reports, is inside its loop
C10_Witness ==
    /\ pc[1] = "answered" /\ cres[1][1].http.status_code = 200
    /\ Len(creq[1].context.anomalies.items) = 2
    /\ pc[2] = "loop" /\ loc[2].i = 2
    /\ creq[2].context.anomalies.items[1] # creq[1].context.anomalies.items[1]
    /\ creq[2].context.anomalies.items[1] # creq[1].context.anomalies.items[2]

====
